---- MODULE Spec2Model ----
(***************************************************************************)
(* win32yang: clipboard tool.  Model of wmain, read_file, write_file and   *)
(* the clipboard / transcoding helpers of src/win32yang.c.                 *)
(*                                                                         *)
(* Pointers into pBuf are modelled as byte offsets from pBuf (pbOut = 0 is *)
(* pBuf itself); buf[i + 1] is the byte at offset i.  A heap cell that was *)
(* never written holds Undef.  size_t values are modelled as integers, so  *)
(* an unsigned underflow shows up as a negative number.                    *)
(***************************************************************************)
EXTENDS Integers, Sequences, FiniteSets, TLC

\* ---------------------------------------------------------------- bounds
\* total number of bytes the input stream delivers
MaxInput == 4
\* number of UTF-16 units of the clipboard memory object (-o direction)
MaxClip == 5
\* initial value of szIncr (2048 in the source), scaled down so that full
\* reads, short reads and doubling all happen within MaxInput bytes
InitIncr == 1

\* ------------------------------------------------------------- constants
CR == 13
LF == 10
NUL == 0
Undef == -1
\* the bytes the streams and the clipboard carry (all ASCII)
Byte == {NUL, LF, CR, 97}

STDOUT == "STD_OUTPUT_HANDLE"
STDERR == "STD_ERROR_HANDLE"

\* the usage message of wmain's default branch, sizeof() bytes of it
\* (the terminating NUL included)
UsageText ==
    << 73, 110, 118, 97, 108, 105, 100, 32, 97, 114, 103, 117, 109, 101, 110, 116, 115, 10, 10, 85,
       115, 97, 103, 101, 58, 10, 9, 119, 105, 110, 51, 50, 121, 97, 110, 103, 32, 45, 105, 32,
       91, 45, 45, 99, 114, 108, 102, 93, 10, 9, 119, 105, 110, 51, 50, 121, 97, 110, 103, 32,
       45, 111, 32, 91, 45, 45, 108, 102, 93, 10, 9, 119, 105, 110, 51, 50, 121, 97, 110, 103,
       32, 45, 120, 10, 10, 79, 112, 116, 105, 111, 110, 115, 58, 10, 9, 45, 105, 9, 9, 83,
       101, 116, 32, 99, 108, 105, 112, 98, 111, 97, 114, 100, 32, 102, 114, 111, 109, 32, 115, 116,
       100, 105, 110, 10, 9, 45, 111, 9, 9, 80, 114, 105, 110, 116, 32, 99, 108, 105, 112, 98,
       111, 97, 114, 100, 32, 99, 111, 110, 116, 101, 110, 116, 115, 32, 116, 111, 32, 115, 116, 100,
       111, 117, 116, 10, 9, 45, 120, 9, 9, 68, 101, 108, 101, 116, 101, 32, 99, 108, 105, 112,
       98, 111, 97, 114, 100, 10, 9, 45, 45, 108, 102, 9, 9, 82, 101, 112, 108, 97, 99, 101,
       32, 67, 82, 76, 70, 32, 119, 105, 116, 104, 32, 76, 70, 32, 98, 101, 102, 111, 114, 101,
       32, 112, 114, 105, 110, 116, 105, 110, 103, 32, 116, 111, 32, 115, 116, 100, 111, 117, 116, 10,
       9, 45, 45, 99, 114, 108, 102, 9, 9, 82, 101, 112, 108, 97, 99, 101, 32, 108, 111, 110,
       101, 32, 76, 70, 32, 98, 121, 116, 101, 115, 32, 119, 105, 116, 104, 32, 67, 82, 76, 70,
       32, 98, 101, 102, 111, 114, 101, 32, 115, 101, 116, 116, 105, 110, 103, 32, 116, 104, 101, 32,
       99, 108, 105, 112, 98, 111, 97, 114, 100, 10, 9, 45, 45, 97, 99, 112, 9, 9, 65, 115,
       115, 117, 109, 101, 32, 67, 80, 95, 65, 67, 80, 32, 40, 115, 121, 115, 116, 101, 109, 32,
       65, 78, 83, 73, 32, 99, 111, 100, 101, 32, 112, 97, 103, 101, 41, 32, 101, 110, 99, 111,
       100, 105, 110, 103, 10, 9, 45, 45, 111, 101, 109, 9, 9, 65, 115, 115, 117, 109, 101, 32,
       67, 80, 95, 79, 69, 77, 67, 80, 32, 40, 79, 69, 77, 32, 99, 111, 100, 101, 32, 112,
       97, 103, 101, 41, 32, 101, 110, 99, 111, 100, 105, 110, 103, 10, 9, 45, 45, 117, 116, 102,
       56, 9, 9, 65, 115, 115, 117, 109, 101, 32, 67, 80, 95, 85, 84, 70, 56, 32, 101, 110,
       99, 111, 100, 105, 110, 103, 32, 40, 100, 101, 102, 97, 117, 108, 116, 41, 10, 0 >>

VARIABLES
    pc,        \* position in wmain / read_file / write_file
    dir,       \* wmain: dir ("i", "o", "x", or "none" for 0)
    lf,        \* wmain: lf
    crlf,      \* wmain: crlf, also read_file's parameter
    status,    \* process exit status, -1 while running
    heap,      \* state of the block pBuf points to: "null", "live", "freed", "static"
    buf,       \* contents of the block pBuf points to
    sz,        \* wmain: sz, and write_file's parameter sz
    szDone, szHole, szTail, szIncr,   \* read_file locals
    pbOut, pbIn, cbRead, c1,          \* read_file locals (offsets from pBuf)
    consumed,  \* history: all bytes ReadFile has delivered so far
    chunks,    \* history: number of bytes of each ReadFile call, in order
    wf_h, wf_lf,                      \* write_file parameters h, lf
    wf_pbOut, wf_pbIn, wf_szTail,     \* write_file locals
    orig,      \* history: the sz bytes write_file was called with
    cooked,    \* history: the sz bytes left when the CRLF => LF part is over
    out,       \* sequence of WriteFile calls: <<handle, bytes>>
    held,      \* this process holds the clipboard open
    clipHas,   \* clipboard holds a CF_UNICODETEXT payload
    clipData,  \* the UTF-16 units of that payload
    hData,     \* -i: the units of the HGLOBAL mb2wc allocated
    hOwner,    \* -i: "none", "caller", "clipboard", "freed"
    calls      \* history: counters of the clipboard / heap calls made

rfVars == <<szDone, szHole, szTail, szIncr, pbOut, pbIn, cbRead, c1, consumed, chunks>>
wfVars == <<wf_h, wf_lf, wf_pbOut, wf_pbIn, wf_szTail, orig, cooked, out>>
clipVars == <<held, clipHas, clipData, hData, hOwner, calls>>
argVars == <<dir, lf, crlf>>
vars == <<pc, argVars, status, heap, buf, sz, rfVars, wfVars, clipVars>>

\* ---------------------------------------------------------------- helpers
\* all sequences over S of length lo..hi
SeqsOf(S, lo, hi) == UNION {[1..n -> S] : n \in lo..hi}

Min(a, b) == IF a < b THEN a ELSE b

\* HeapAlloc / HeapReAlloc without HEAP_ZERO_MEMORY: the first Len(b) bytes
\* are kept (up to n), the rest is uninitialised
mem_realloc(b, n) == [i \in 1..n |-> IF i <= Len(b) THEN b[i] ELSE Undef]

\* store byte c at offset off of block b (a store outside the block is lost)
Poke(b, off, c) == [i \in 1..Len(b) |-> IF i = off + 1 THEN c ELSE b[i]]

\* store the bytes of s at offsets off, off+1, ...
PokeSeq(b, off, s) ==
    [i \in 1..Len(b) |-> IF i > off /\ i <= off + Len(s) THEN s[i - off] ELSE b[i]]

\* byte at offset off (Undef outside the block)
Peek(b, off) == IF off >= 0 /\ off < Len(b) THEN b[off + 1] ELSE Undef

Bump(c, k) == [c EXCEPT ![k] = @ + 1]

\* MultiByteToWideChar / WideCharToMultiByte on ASCII text: one unit per
\* byte, same code; a source length of 0 makes the call fail and return 0
MultiByteToWideChar(src, cch) == IF cch = 0 THEN <<>> ELSE SubSeq(src, 1, cch)
WideCharToMultiByte(src, cch) == IF cch = 0 THEN <<>> ELSE SubSeq(src, 1, cch)

\* ------------------------------------------------------------------ Init
ZeroCalls ==
    [open |-> 0, close |-> 0, empty |-> 0, set |-> 0, get |-> 0,
     gfree |-> 0, read |-> 0, readAfterEof |-> 0, hfree |-> 0]

InitCommon ==
    /\ status = -1
    /\ heap = "null" /\ buf = <<>> /\ sz = 0
    /\ szDone = 0 /\ szHole = 0 /\ szTail = 0 /\ szIncr = InitIncr
    /\ pbOut = 0 /\ pbIn = 0 /\ cbRead = 0 /\ c1 = 0
    /\ consumed = <<>> /\ chunks = <<>>
    /\ wf_h = STDOUT /\ wf_lf = FALSE
    /\ wf_pbOut = 0 /\ wf_pbIn = 0 /\ wf_szTail = 0
    /\ orig = <<>> /\ cooked = <<>> /\ out = <<>>
    /\ held = FALSE
    /\ hData = <<>> /\ hOwner = "none"
    /\ calls = ZeroCalls

\* the state after argument parsing (wmain lines 27-55): any direction, any
\* flags; the clipboard holds no text or an arbitrary memory object
Init ==
    /\ InitCommon
    /\ pc = "start"
    /\ dir \in {"i", "o", "x", "none"}
    /\ lf \in BOOLEAN /\ crlf \in BOOLEAN
    /\ clipHas \in BOOLEAN
    /\ IF ~clipHas THEN clipData = <<>>
       ELSE IF dir = "o" THEN clipData \in SeqsOf(Byte, 0, MaxClip)
       ELSE clipData = <<97, NUL>>

\* ------------------------------------------------------------------ wmain
\* switch (dir)
Dispatch ==
    /\ pc = "start"
    /\ IF dir = "none"
       THEN \* default: write_file(stderr, FALSE, ARRAY(usage))
            /\ heap' = "static"
            /\ buf' = UsageText
            /\ sz' = Len(UsageText)
            /\ wf_h' = STDERR
            /\ wf_lf' = FALSE
            /\ pc' = "wf_begin"
       ELSE /\ pc' = CASE dir = "i" -> "rf_loop"
                      [] dir = "o" -> "o_open"
                      [] OTHER     -> "x_open"
            /\ UNCHANGED <<heap, buf, sz, wf_h, wf_lf>>
    /\ UNCHANGED <<argVars, status, rfVars, wf_pbOut, wf_pbIn, wf_szTail, orig, cooked, out,
                   clipVars>>

\* -------------------------------------------------------------- read_file
\* mutant of RF_Grow: the tail grows by szIncr2 once, not twice
RF_Grow_SingleIncr ==
    /\ pc = "rf_loop"
    /\ LET szIncr2 == szIncr + (IF crlf THEN szIncr ELSE 0) IN
       IF szHole + szTail < szIncr2
       THEN LET tail2 == szTail + szIncr2 IN
            /\ szIncr' = szIncr + szIncr
            /\ szTail' = tail2
            /\ buf' = mem_realloc(buf, szDone + szHole + tail2)
            /\ heap' = "live"
            /\ pbOut' = szDone
       ELSE UNCHANGED <<szIncr, szTail, buf, heap, pbOut>>
    /\ pc' = "rf_hole"
    /\ UNCHANGED <<argVars, status, sz, szDone, szHole, pbIn, cbRead, c1, consumed,
                   chunks, wfVars, clipVars>>

\* mutant of RF_Grow: the buffer also grows when hole + tail == szIncr2
RF_Grow_GrowOnEqual ==
    /\ pc = "rf_loop"
    /\ LET szIncr2 == szIncr + (IF crlf THEN szIncr ELSE 0) IN
       IF szHole + szTail <= szIncr2
       THEN LET tail2 == szTail + szIncr2 + szIncr2 IN
            /\ szIncr' = szIncr + szIncr
            /\ szTail' = tail2
            /\ buf' = mem_realloc(buf, szDone + szHole + tail2)
            /\ heap' = "live"
            /\ pbOut' = szDone
       ELSE UNCHANGED <<szIncr, szTail, buf, heap, pbOut>>
    /\ pc' = "rf_hole"
    /\ UNCHANGED <<argVars, status, sz, szDone, szHole, pbIn, cbRead, c1, consumed,
                   chunks, wfVars, clipVars>>

\* head of the for (;;) loop: grow buffer
RF_Grow ==
    /\ pc = "rf_loop"
    /\ LET szIncr2 == szIncr + (IF crlf THEN szIncr ELSE 0) IN
       IF szHole + szTail < szIncr2
       THEN LET tail2 == szTail + szIncr2 + szIncr2 IN
            /\ szIncr' = szIncr + szIncr
            /\ szTail' = tail2
            /\ buf' = mem_realloc(buf, szDone + szHole + tail2)
            /\ heap' = "live"
            /\ pbOut' = szDone
       ELSE UNCHANGED <<szIncr, szTail, buf, heap, pbOut>>
    /\ pc' = "rf_hole"
    /\ UNCHANGED <<argVars, status, sz, szDone, szHole, pbIn, cbRead, c1, consumed,
                   chunks, wfVars, clipVars>>

\* mutant of RF_GrowHole: the hole grows without taking the bytes from the tail
RF_GrowHole_KeepTail ==
    /\ pc = "rf_hole"
    /\ IF crlf /\ szHole < szIncr
       THEN /\ szHole' = szIncr
            /\ UNCHANGED szTail
       ELSE UNCHANGED <<szTail, szHole>>
    /\ pc' = "rf_read"
    /\ UNCHANGED <<argVars, status, heap, buf, sz, szDone, szIncr, pbOut, pbIn, cbRead,
                   c1, consumed, chunks, wfVars, clipVars>>

\* mutant of RF_GrowHole: the hole is never refilled
RF_GrowHole_Never ==
    /\ pc = "rf_hole"
    /\ pc' = "rf_read"
    /\ UNCHANGED <<argVars, status, heap, buf, sz, szDone, szHole, szTail, szIncr, pbOut,
                   pbIn, cbRead, c1, consumed, chunks, wfVars, clipVars>>

\* grow hole
RF_GrowHole ==
    /\ pc = "rf_hole"
    /\ IF crlf /\ szHole < szIncr
       THEN /\ szTail' = szTail - (szIncr - szHole)
            /\ szHole' = szIncr
       ELSE UNCHANGED <<szTail, szHole>>
    /\ pc' = "rf_read"
    /\ UNCHANGED <<argVars, status, heap, buf, sz, szDone, szIncr, pbOut, pbIn, cbRead,
                   c1, consumed, chunks, wfVars, clipVars>>

\* mutant of RF_Read: without expansion the write cursor is not advanced
RF_Read_NoAdvance ==
    /\ pc = "rf_read"
    /\ \E chunk \in SeqsOf(Byte, 0, Min(szIncr, MaxInput - Len(consumed))) :
        LET landing == pbOut + szHole
            n  == Len(chunk) IN
        /\ pbIn' = landing
        /\ cbRead' = n
        /\ buf' = PokeSeq(buf, landing, chunk)
        /\ consumed' = consumed \o chunk
        /\ chunks' = Append(chunks, n)
        /\ calls' = [calls EXCEPT !.read = @ + 1,
                                  !.readAfterEof = @ + (IF n # 0 /\ 0 \in {chunks[i] : i \in 1..Len(chunks)} THEN 1 ELSE 0)]
        /\ IF n = 0
           THEN /\ pc' = "rf_ret"
                /\ UNCHANGED <<szDone, szTail, pbOut, c1>>
           ELSE /\ szDone' = szDone + n
                /\ szTail' = szTail - n
                /\ IF crlf
                   THEN /\ c1' = 0
                        /\ pc' = "rf_expand"
                        /\ UNCHANGED pbOut
                   ELSE /\ pc' = "rf_loop"
                        /\ UNCHANGED <<pbOut, c1>>
    /\ UNCHANGED <<argVars, status, heap, sz, szHole, szIncr, wfVars,
                   held, clipHas, clipData, hData, hOwner>>

\* ReadFile(h, pbIn, szIncr, &cbRead): the stream delivers any chunk of at
\* most szIncr bytes; 0 bytes is end of file or a read error
RF_Read ==
    /\ pc = "rf_read"
    /\ \E chunk \in SeqsOf(Byte, 0, Min(szIncr, MaxInput - Len(consumed))) :
        LET landing == pbOut + szHole
            n  == Len(chunk) IN
        /\ pbIn' = landing
        /\ cbRead' = n
        /\ buf' = PokeSeq(buf, landing, chunk)
        /\ consumed' = consumed \o chunk
        /\ chunks' = Append(chunks, n)
        /\ calls' = [calls EXCEPT !.read = @ + 1,
                                  !.readAfterEof = @ + (IF n # 0 /\ 0 \in {chunks[i] : i \in 1..Len(chunks)} THEN 1 ELSE 0)]
        /\ IF n = 0
           THEN /\ pc' = "rf_ret"
                /\ UNCHANGED <<szDone, szTail, pbOut, c1>>
           ELSE /\ szDone' = szDone + n
                /\ szTail' = szTail - n
                /\ IF crlf
                   THEN /\ c1' = 0
                        /\ pc' = "rf_expand"
                        /\ UNCHANGED pbOut
                   ELSE /\ pbOut' = pbOut + n
                        /\ pc' = "rf_loop"
                        /\ UNCHANGED c1
    /\ UNCHANGED <<argVars, status, heap, sz, szHole, szIncr, wfVars,
                   held, clipHas, clipData, hData, hOwner>>

\* mutant of RF_Expand: the pair is stored as LF CR
RF_Expand_Swapped ==
    /\ pc = "rf_expand"
    /\ LET c == Peek(buf, pbIn) IN
       /\ pbIn' = pbIn + 1
       /\ IF c1 = CR \/ c # LF
          THEN /\ buf' = Poke(buf, pbOut, c)
               /\ pbOut' = pbOut + 1
               /\ UNCHANGED <<szHole, szDone>>
          ELSE /\ buf' = Poke(Poke(buf, pbOut, LF), pbOut + 1, CR)
               /\ pbOut' = pbOut + 2
               /\ szHole' = szHole - 1
               /\ szDone' = szDone + 1
       /\ c1' = c
    /\ cbRead' = cbRead - 1
    /\ pc' = IF cbRead - 1 # 0 THEN "rf_expand" ELSE "rf_loop"
    /\ UNCHANGED <<argVars, status, heap, sz, szTail, szIncr, consumed, chunks,
                   wfVars, clipVars>>

\* mutant of RF_Expand: an expansion does not count the extra byte in szDone
RF_Expand_NoCount ==
    /\ pc = "rf_expand"
    /\ LET c == Peek(buf, pbIn) IN
       /\ pbIn' = pbIn + 1
       /\ IF c1 = CR \/ c # LF
          THEN /\ buf' = Poke(buf, pbOut, c)
               /\ pbOut' = pbOut + 1
               /\ UNCHANGED <<szHole, szDone>>
          ELSE /\ buf' = Poke(Poke(buf, pbOut, CR), pbOut + 1, LF)
               /\ pbOut' = pbOut + 2
               /\ szHole' = szHole - 1
               /\ UNCHANGED szDone
       /\ c1' = c
    /\ cbRead' = cbRead - 1
    /\ pc' = IF cbRead - 1 # 0 THEN "rf_expand" ELSE "rf_loop"
    /\ UNCHANGED <<argVars, status, heap, sz, szTail, szIncr, consumed, chunks,
                   wfVars, clipVars>>

\* mutant of RF_Expand: an expansion counts two extra bytes in szDone
RF_Expand_DoubleCount ==
    /\ pc = "rf_expand"
    /\ LET c == Peek(buf, pbIn) IN
       /\ pbIn' = pbIn + 1
       /\ IF c1 = CR \/ c # LF
          THEN /\ buf' = Poke(buf, pbOut, c)
               /\ pbOut' = pbOut + 1
               /\ UNCHANGED <<szHole, szDone>>
          ELSE /\ buf' = Poke(Poke(buf, pbOut, CR), pbOut + 1, LF)
               /\ pbOut' = pbOut + 2
               /\ szHole' = szHole - 1
               /\ szDone' = szDone + 2
       /\ c1' = c
    /\ cbRead' = cbRead - 1
    /\ pc' = IF cbRead - 1 # 0 THEN "rf_expand" ELSE "rf_loop"
    /\ UNCHANGED <<argVars, status, heap, sz, szTail, szIncr, consumed, chunks,
                   wfVars, clipVars>>

\* one iteration of the do { } while (--cbRead) loop: LF => CRLF
RF_Expand ==
    /\ pc = "rf_expand"
    /\ LET c == Peek(buf, pbIn) IN
       /\ pbIn' = pbIn + 1
       /\ IF c1 = CR \/ c # LF
          THEN /\ buf' = Poke(buf, pbOut, c)
               /\ pbOut' = pbOut + 1
               /\ UNCHANGED <<szHole, szDone>>
          ELSE /\ buf' = Poke(Poke(buf, pbOut, CR), pbOut + 1, LF)
               /\ pbOut' = pbOut + 2
               /\ szHole' = szHole - 1
               /\ szDone' = szDone + 1
       /\ c1' = c
    /\ cbRead' = cbRead - 1
    /\ pc' = IF cbRead - 1 # 0 THEN "rf_expand" ELSE "rf_loop"
    /\ UNCHANGED <<argVars, status, heap, sz, szTail, szIncr, consumed, chunks,
                   wfVars, clipVars>>

\* return *psz = szDone, pBuf
RF_Return ==
    /\ pc = "rf_ret"
    /\ sz' = szDone
    /\ pc' = "i_mb2wc"
    /\ UNCHANGED <<argVars, status, heap, buf, rfVars, wfVars, clipVars>>

\* ------------------------------------------------------- wmain, case 'i'
\* hData = mb2wc(cp, pBuf, sz); mem_free(pBuf)
I_Mb2wc ==
    /\ pc = "i_mb2wc"
    /\ LET wide   == MultiByteToWideChar(buf, sz)
           cchDst == Len(wide) + 1 IN
       \* GlobalAlloc(GMEM_MOVEABLE, sizeof(WCHAR) * cchDst): not zeroed
       hData' = PokeSeq([i \in 1..cchDst |-> Undef], 0, wide)
    /\ hOwner' = "caller"
    /\ heap' = "freed"
    /\ buf' = <<>>
    /\ calls' = Bump(calls, "hfree")
    /\ pc' = "i_open"
    /\ UNCHANGED <<argVars, status, sz, rfVars, wfVars, held, clipHas, clipData>>

\* OpenClipboard(NULL): fails while another process holds the clipboard
OpenClipboard(ok, pcThen, pcElse) ==
    /\ IF ok
       THEN /\ held' = TRUE
            /\ calls' = Bump(calls, "open")
            /\ pc' = pcThen
       ELSE /\ pc' = pcElse
            /\ UNCHANGED <<held, calls>>

EmptyClipboard ==
    /\ clipHas' = FALSE
    /\ clipData' = <<>>
    /\ calls' = Bump(calls, "empty")

CloseClipboard ==
    /\ held' = FALSE
    /\ calls' = Bump(calls, "close")

I_Open ==
    /\ pc = "i_open"
    /\ \E ok \in BOOLEAN : OpenClipboard(ok, "i_empty", "break")
    /\ UNCHANGED <<argVars, status, heap, buf, sz, rfVars, wfVars, clipHas, clipData,
                   hData, hOwner>>

I_Empty ==
    /\ pc = "i_empty"
    /\ EmptyClipboard
    /\ pc' = "i_set"
    /\ UNCHANGED <<argVars, status, heap, buf, sz, rfVars, wfVars, held, hData, hOwner>>

\* mutant of set_nolock: hData is freed whether or not the clipboard took it
set_nolock_AlwaysFree ==
    \E ok \in BOOLEAN :
        IF ok
        THEN /\ clipHas' = TRUE
             /\ clipData' = hData
             /\ hOwner' = "freed"
             /\ calls' = Bump(Bump(calls, "set"), "gfree")
        ELSE /\ hOwner' = "freed"
             /\ calls' = Bump(Bump(calls, "set"), "gfree")
             /\ UNCHANGED <<clipHas, clipData>>

\* set_nolock(CF_UNICODETEXT, hData)
set_nolock ==
    \E ok \in BOOLEAN :
        IF ok
        THEN \* SetClipboardData succeeded: the clipboard owns hData
             /\ clipHas' = TRUE
             /\ clipData' = hData
             /\ hOwner' = "clipboard"
             /\ calls' = Bump(calls, "set")
        ELSE \* GlobalFree(hData)
             /\ hOwner' = "freed"
             /\ calls' = Bump(Bump(calls, "set"), "gfree")
             /\ UNCHANGED <<clipHas, clipData>>

\* mutant of I_Set: nothing is set when the input was empty
I_Set_SkipEmpty ==
    /\ pc = "i_set"
    /\ IF sz = 0
       THEN UNCHANGED <<clipHas, clipData, hOwner, calls>>
       ELSE set_nolock
    /\ pc' = "i_close"
    /\ UNCHANGED <<argVars, status, heap, buf, sz, rfVars, wfVars, held, hData>>

I_Set ==
    /\ pc = "i_set"
    /\ set_nolock
    /\ pc' = "i_close"
    /\ UNCHANGED <<argVars, status, heap, buf, sz, rfVars, wfVars, held, hData>>

I_Close ==
    /\ pc = "i_close"
    /\ CloseClipboard
    /\ pc' = "break"
    /\ UNCHANGED <<argVars, status, heap, buf, sz, rfVars, wfVars, clipHas, clipData,
                   hData, hOwner>>

\* ------------------------------------------------------- wmain, case 'o'
\* pBuf = NULL, sz = 0; OpenClipboard(NULL)
O_Open ==
    /\ pc = "o_open"
    /\ heap' = "null" /\ buf' = <<>> /\ sz' = 0
    /\ \E ok \in BOOLEAN : OpenClipboard(ok, "o_get", "o_write")
    /\ UNCHANGED <<argVars, status, rfVars, wfVars, clipHas, clipData, hData, hOwner>>

\* hData = get_and_lock(CF_UNICODETEXT, &pBufGlobal, &szGlobal);
\* if (hData != NULL) { pBuf = wc2mb(...); GlobalUnlock(hData); }
O_Get ==
    /\ pc = "o_get"
    /\ calls' = Bump(calls, "get")
    /\ IF clipHas
       THEN LET cchSrc == Len(clipData)     \* szGlobal / sizeof(WCHAR)
                mb     == WideCharToMultiByte(clipData, cchSrc)
                cchDst == Len(mb) + 1 IN
            \* mem_alloc(cchDst), then the conversion fills Len(mb) bytes
            /\ buf' = PokeSeq([i \in 1..cchDst |-> Undef], 0, mb)
            /\ heap' = "live"
            /\ sz' = Len(mb)
       ELSE UNCHANGED <<buf, heap, sz>>
    /\ pc' = "o_close"
    /\ UNCHANGED <<argVars, status, rfVars, wfVars, held, clipHas, clipData, hData,
                   hOwner>>

\* mutant of O_Close: the clipboard is closed only when a payload was found
O_Close_OnlyWithData ==
    /\ pc = "o_close"
    /\ IF heap = "live" THEN CloseClipboard ELSE UNCHANGED <<held, calls>>
    /\ pc' = "o_write"
    /\ UNCHANGED <<argVars, status, heap, buf, sz, rfVars, wfVars, clipHas, clipData,
                   hData, hOwner>>

O_Close ==
    /\ pc = "o_close"
    /\ CloseClipboard
    /\ pc' = "o_write"
    /\ UNCHANGED <<argVars, status, heap, buf, sz, rfVars, wfVars, clipHas, clipData,
                   hData, hOwner>>

\* write_file(GetStdHandle(STD_OUTPUT_HANDLE), lf, pBuf, sz)
O_Write ==
    /\ pc = "o_write"
    /\ wf_h' = STDOUT
    /\ wf_lf' = lf
    /\ pc' = "wf_begin"
    /\ UNCHANGED <<argVars, status, heap, buf, sz, rfVars, wf_pbOut, wf_pbIn, wf_szTail,
                   orig, cooked, out, clipVars>>

\* mem_free(pBuf) after write_file returned
O_Free ==
    /\ pc = "wf_ret" /\ dir = "o"
    /\ heap' = IF heap = "live" THEN "freed" ELSE heap
    /\ calls' = Bump(calls, "hfree")
    /\ pc' = "break"
    /\ UNCHANGED <<argVars, status, buf, sz, rfVars, wfVars, held, clipHas, clipData,
                   hData, hOwner>>

\* default branch: break after write_file returned
U_Break ==
    /\ pc = "wf_ret" /\ dir = "none"
    /\ pc' = "break"
    /\ UNCHANGED <<argVars, status, heap, buf, sz, rfVars, wfVars, clipVars>>

\* ------------------------------------------------------- wmain, case 'x'
\* mutant of X_Open: the result of OpenClipboard is not looked at
X_Open_Unchecked ==
    /\ pc = "x_open"
    /\ \E ok \in BOOLEAN : OpenClipboard(ok, "x_empty", "x_empty")
    /\ UNCHANGED <<argVars, status, heap, buf, sz, rfVars, wfVars, clipHas, clipData,
                   hData, hOwner>>

X_Open ==
    /\ pc = "x_open"
    /\ \E ok \in BOOLEAN : OpenClipboard(ok, "x_empty", "break")
    /\ UNCHANGED <<argVars, status, heap, buf, sz, rfVars, wfVars, clipHas, clipData,
                   hData, hOwner>>

X_Empty ==
    /\ pc = "x_empty"
    /\ EmptyClipboard
    /\ pc' = "x_close"
    /\ UNCHANGED <<argVars, status, heap, buf, sz, rfVars, wfVars, held, hData, hOwner>>

X_Close ==
    /\ pc = "x_close"
    /\ CloseClipboard
    /\ pc' = "break"
    /\ UNCHANGED <<argVars, status, heap, buf, sz, rfVars, wfVars, clipHas, clipData,
                   hData, hOwner>>

\* mutant of Return: a run that could not open the clipboard exits with 1
Return_FailStatus ==
    /\ pc = "break"
    /\ status' = IF dir # "none" /\ calls.open = 0 THEN 1 ELSE 0
    /\ pc' = "done"
    /\ UNCHANGED <<argVars, heap, buf, sz, rfVars, wfVars, clipVars>>

\* return 0
Return ==
    /\ pc = "break"
    /\ status' = 0
    /\ pc' = "done"
    /\ UNCHANGED <<argVars, heap, buf, sz, rfVars, wfVars, clipVars>>

\* ------------------------------------------------------------- write_file
\* PBYTE pbOut = pBuf; then the loop initialisation, or pbOut += sz
W_Begin ==
    /\ pc = "wf_begin"
    /\ orig' = SubSeq(buf, 1, sz)
    /\ IF wf_lf
       THEN /\ wf_pbOut' = 0
            /\ wf_pbIn' = 0
            /\ wf_szTail' = sz
            /\ pc' = "wf_loop"
            /\ UNCHANGED cooked
       ELSE /\ wf_pbOut' = sz
            /\ pc' = "wf_trim"
            /\ cooked' = SubSeq(buf, 1, sz)
            /\ UNCHANGED <<wf_pbIn, wf_szTail>>
    /\ UNCHANGED <<argVars, status, heap, buf, sz, rfVars, wf_h, wf_lf, out, clipVars>>

\* mutant of ContractStep: of a CR LF pair the CR is kept and the LF dropped
ContractStep_KeepCR(s) ==
    LET c == Peek(s.buf, s.pbIn) IN
    IF c # CR \/ Peek(s.buf, s.pbIn + 1) # LF
    THEN [buf    |-> Poke(s.buf, s.pbOut, c),
          pbIn   |-> s.pbIn + 1,
          pbOut  |-> s.pbOut + 1,
          szTail |-> s.szTail - 1,
          sz     |-> s.sz]
    ELSE [buf    |-> Poke(s.buf, s.pbOut, c),
          pbIn   |-> s.pbIn + 2,
          pbOut  |-> s.pbOut + 1,
          szTail |-> s.szTail - 2,
          sz     |-> s.sz - 1]

\* mutant of ContractStep: a contracted pair takes one byte off szTail
ContractStep_NoTailDec(s) ==
    LET c == Peek(s.buf, s.pbIn) IN
    IF c # CR \/ Peek(s.buf, s.pbIn + 1) # LF
    THEN [buf    |-> Poke(s.buf, s.pbOut, c),
          pbIn   |-> s.pbIn + 1,
          pbOut  |-> s.pbOut + 1,
          szTail |-> s.szTail - 1,
          sz     |-> s.sz]
    ELSE [buf    |-> Poke(s.buf, s.pbOut, LF),
          pbIn   |-> s.pbIn + 2,
          pbOut  |-> s.pbOut + 1,
          szTail |-> s.szTail - 1,
          sz     |-> s.sz - 1]

\* body of the for loop (at least two bytes left to look ahead): CRLF => LF
\* s = [buf, pbIn, pbOut, szTail, sz]; the result is s after the body and
\* the loop's --szTail
ContractStep(s) ==
    LET c == Peek(s.buf, s.pbIn) IN
    IF c # CR \/ Peek(s.buf, s.pbIn + 1) # LF
    THEN [buf    |-> Poke(s.buf, s.pbOut, c),
          pbIn   |-> s.pbIn + 1,
          pbOut  |-> s.pbOut + 1,
          szTail |-> s.szTail - 1,
          sz     |-> s.sz]
    ELSE [buf    |-> Poke(s.buf, s.pbOut, LF),
          pbIn   |-> s.pbIn + 2,
          pbOut  |-> s.pbOut + 1,
          szTail |-> s.szTail - 2,
          sz     |-> s.sz - 1]

\* mutant of ContractLast: the last byte is not passed through
ContractLast_Drop(s) == [s EXCEPT !.pbOut = s.pbOut + (IF s.szTail > 0 THEN 1 ELSE 0)]

\* pass last byte through: if (szTail > 0) *pbOut++ = *pbIn
ContractLast(s) ==
    IF s.szTail > 0
    THEN [s EXCEPT !.buf = Poke(s.buf, s.pbOut, Peek(s.buf, s.pbIn)),
                   !.pbOut = s.pbOut + 1]
    ELSE s

RECURSIVE ContractLoop(_)
ContractLoop(s) ==
    IF s.szTail >= 2 THEN ContractLoop(ContractStep(s)) ELSE ContractLast(s)

\* the whole CRLF => LF pass of write_file on the bytes x: the new contents
contract(x) ==
    LET r == ContractLoop([buf |-> x, pbIn |-> 0, pbOut |-> 0,
                           szTail |-> Len(x), sz |-> Len(x)])
    IN  SubSeq(r.buf, 1, r.sz)

WfState == [buf |-> buf, pbIn |-> wf_pbIn, pbOut |-> wf_pbOut, szTail |-> wf_szTail, sz |-> sz]

\* one iteration of the for loop
W_Contract ==
    /\ pc = "wf_loop"
    /\ wf_szTail >= 2
    /\ LET s == ContractStep(WfState) IN
       /\ buf' = s.buf
       /\ wf_pbIn' = s.pbIn
       /\ wf_pbOut' = s.pbOut
       /\ wf_szTail' = s.szTail
       /\ sz' = s.sz
    /\ UNCHANGED <<pc, argVars, status, heap, rfVars, wf_h, wf_lf, orig, cooked, out,
                   clipVars>>

\* loop exit
W_Last ==
    /\ pc = "wf_loop"
    /\ wf_szTail < 2
    /\ LET s == ContractLast(WfState) IN
       /\ buf' = s.buf
       /\ wf_pbOut' = s.pbOut
       /\ cooked' = SubSeq(s.buf, 1, sz)
    /\ pc' = "wf_trim"
    /\ UNCHANGED <<argVars, status, heap, sz, rfVars, wf_h, wf_lf, wf_pbIn, wf_szTail,
                   orig, out, clipVars>>

\* chop trailing zeroes: if (sz > 0)
W_TrimTest ==
    /\ pc = "wf_trim"
    /\ pc' = IF sz > 0 THEN "wf_scan" ELSE "wf_write"
    /\ UNCHANGED <<argVars, status, heap, buf, sz, rfVars, wfVars, clipVars>>

\* mutant of W_Trim: while (sz > 1 && *--pbOut == 0) --sz; the first byte
\* is never trimmed
W_Trim_KeepFirst ==
    /\ pc = "wf_scan"
    /\ IF sz > 1
       THEN /\ wf_pbOut' = wf_pbOut - 1
            /\ IF Peek(buf, wf_pbOut - 1) = NUL
               THEN /\ sz' = sz - 1
                    /\ UNCHANGED pc
               ELSE /\ pc' = "wf_write"
                    /\ UNCHANGED sz
       ELSE /\ pc' = "wf_write"
            /\ UNCHANGED <<wf_pbOut, sz>>
    /\ UNCHANGED <<argVars, status, heap, buf, rfVars, wf_h, wf_lf, wf_pbIn, wf_szTail,
                   orig, cooked, out, clipVars>>

\* mutant of W_Trim: while (--sz && *--pbOut == 0) ; the length is
\* decremented before the byte is looked at
W_Trim_OffByOne ==
    /\ pc = "wf_scan"
    /\ sz' = sz - 1
    /\ IF sz - 1 # 0
       THEN /\ wf_pbOut' = wf_pbOut - 1
            /\ pc' = IF Peek(buf, wf_pbOut - 1) = NUL THEN "wf_scan" ELSE "wf_write"
       ELSE /\ pc' = "wf_write"
            /\ UNCHANGED wf_pbOut
    /\ UNCHANGED <<argVars, status, heap, buf, rfVars, wf_h, wf_lf, wf_pbIn, wf_szTail,
                   orig, cooked, out, clipVars>>

\* one evaluation of the condition of while (*--pbOut == 0 && --sz) ;
W_Trim ==
    /\ pc = "wf_scan"
    /\ wf_pbOut' = wf_pbOut - 1
    /\ IF Peek(buf, wf_pbOut - 1) = NUL
       THEN /\ sz' = sz - 1
            /\ pc' = IF sz - 1 # 0 THEN "wf_scan" ELSE "wf_write"
       ELSE /\ pc' = "wf_write"
            /\ UNCHANGED sz
    /\ UNCHANGED <<argVars, status, heap, buf, rfVars, wf_h, wf_lf, wf_pbIn, wf_szTail,
                   orig, cooked, out, clipVars>>

\* return sz ? WriteFile(h, pBuf, sz, ...) : FALSE
W_Write ==
    /\ pc = "wf_write"
    /\ out' = IF sz # 0 THEN Append(out, <<wf_h, SubSeq(buf, 1, sz)>>) ELSE out
    /\ pc' = "wf_ret"
    /\ UNCHANGED <<argVars, status, heap, buf, sz, rfVars, wf_h, wf_lf, wf_pbOut, wf_pbIn,
                   wf_szTail, orig, cooked, clipVars>>

\* ----------------------------------------------------------- the program
Next ==
    \/ Dispatch
    \/ RF_Grow \/ RF_GrowHole \/ RF_Read \/ RF_Expand \/ RF_Return
    \/ I_Mb2wc \/ I_Open \/ I_Empty \/ I_Set \/ I_Close
    \/ O_Open \/ O_Get \/ O_Close \/ O_Write \/ O_Free
    \/ U_Break
    \/ X_Open \/ X_Empty \/ X_Close
    \/ W_Begin \/ W_Contract \/ W_Last \/ W_TrimTest \/ W_Trim \/ W_Write
    \/ Return

Spec == Init /\ [][Next]_vars

\* ================================================================ claims
\* positions of read_file and of write_file after its CRLF => LF part
InReadFile == pc \in {"rf_loop", "rf_hole", "rf_read", "rf_expand", "rf_ret"}
AfterContract == pc \in {"wf_trim", "wf_scan", "wf_write", "wf_ret"}

\* the finalized bytes of read_file
Finalized == SubSeq(buf, 1, szDone)

HasCR(x) == \E i \in 1..Len(x) : x[i] = CR
HasCRLF(x) == \E i \in 1..(Len(x) - 1) : x[i] = CR /\ x[i + 1] = LF
HasCRCRLF(x) == \E i \in 1..(Len(x) - 2) : x[i] = CR /\ x[i + 1] = CR /\ x[i + 2] = LF
AllZero(x) == \A i \in 1..Len(x) : x[i] = NUL
CountLF(x) == Cardinality({i \in 1..Len(x) : x[i] = LF})
CountCRLF(x) == Cardinality({i \in 1..(Len(x) - 1) : x[i] = CR /\ x[i + 1] = LF})
\* 1-based position of the last non-zero byte of x, 0 when there is none
LastNonZero(x) ==
    LET nz == {i \in 1..Len(x) : x[i] # NUL}
    IN  IF nz = {} THEN 0 ELSE CHOOSE i \in nz : \A j \in nz : j <= i

\* reference expansion: every LF becomes CR LF
RECURSIVE ExpandEveryLF(_)
ExpandEveryLF(x) ==
    IF x = <<>> THEN <<>>
    ELSE (IF Head(x) = LF THEN <<CR, LF>> ELSE <<Head(x)>>) \o ExpandEveryLF(Tail(x))

\* reference contraction: single forward pass with a two-byte look-ahead
RECURSIVE ContractRef(_)
ContractRef(x) ==
    IF Len(x) < 2 THEN x
    ELSE IF x[1] = CR /\ x[2] = LF
         THEN <<LF>> \o ContractRef(SubSeq(x, 3, Len(x)))
         ELSE <<x[1]>> \o ContractRef(Tail(x))

\* C1: with expand_lf, an LF that is the first byte of a chunk, where the
\* previous chunk ended with CR, is copied as one byte and not expanded.
C1_BoundaryLFNotExpanded ==
    [][(/\ pc = "rf_expand"
        /\ cbRead = chunks[Len(chunks)]
        /\ Len(consumed) > cbRead
        /\ consumed[Len(consumed) - cbRead] = CR
        /\ Peek(buf, pbIn) = LF)
       => (szDone' = szDone /\ pbOut' = pbOut + 1)]_vars

\* C2 as stated: the output of one contraction pass is a fixed point of
\* contraction, for every input.
C2_ContractIdempotent ==
    (AfterContract /\ wf_lf) => (contract(cooked) = cooked /\ ~HasCRLF(cooked))

\* C2 amended: the output of one contraction pass is a fixed point of
\* contraction, and holds no CR LF, when the input holds no CR CR LF; and
\* when the input holds CR CR LF the output does hold a CR LF.
C2_ContractIdempotentNoCRCRLF ==
    (AfterContract /\ wf_lf) =>
        /\ HasCRLF(cooked) <=> HasCRCRLF(orig)
        /\ ~HasCRCRLF(orig) => contract(cooked) = cooked

C2_Witness ==
    /\ pc = "wf_ret" /\ wf_lf
    /\ orig = <<CR, LF, CR, LF>>
    /\ cooked = <<LF, LF>>

\* C3 as stated: a non-empty all-zero buffer makes write_file write exactly
\* one byte.
C3_AllZeroWritesOneByte ==
    (pc = "wf_ret" /\ orig # <<>> /\ AllZero(orig)) =>
        (Len(out) = 1 /\ out[1][2] = <<NUL>>)

\* C3 amended: a non-empty all-zero buffer is trimmed to length 0 and
\* write_file writes nothing; the scan never steps before the first byte.
C3_AllZeroWritesNothing ==
    /\ (pc \in {"wf_write", "wf_ret"} /\ orig # <<>> /\ AllZero(orig)) =>
            (sz = 0 /\ out = <<>> /\ wf_pbOut = 0)
    /\ pc \in {"wf_scan", "wf_write", "wf_ret"} => wf_pbOut >= 0

C3_Witness ==
    /\ pc = "wf_ret"
    /\ orig = <<NUL>>
    /\ out = <<>>

\* the -i run whose first ReadFile returned 0 bytes, with the clipboard opened
EmptyInputDone ==
    /\ pc = "done" /\ dir = "i"
    /\ chunks = <<0>>
    /\ calls.open = 1

\* C4 as stated: with an exhausted source the finalized length is 0, the
\* clipboard is emptied and SetClipboardData is not performed.
C4_EmptyInputNotSet ==
    EmptyInputDone => (sz = 0 /\ calls.empty = 1 /\ calls.set = 0 /\ ~clipHas)

\* C4 amended: with an exhausted source the finalized length is 0, the
\* clipboard is emptied, and set_nolock is still performed once, with a
\* payload of one unit that no conversion has written.
C4_EmptyInputSetOnce ==
    EmptyInputDone =>
        /\ sz = 0 /\ szDone = 0
        /\ calls.empty = 1
        /\ calls.set = 1
        /\ hData = <<Undef>>
        /\ hOwner \in {"clipboard", "freed"}
        /\ hOwner = "clipboard" <=> (clipHas /\ clipData = <<Undef>>)
        /\ hOwner = "freed" <=> ~clipHas

C4_Witness ==
    /\ EmptyInputDone
    /\ calls.set = 1
    /\ clipHas

\* C5: the clipboard is closed exactly once after each successful open and
\* never otherwise; the process does not reach Done holding it.
C5_OpenClosePaired ==
    /\ calls.open <= 1
    /\ calls.close <= calls.open
    /\ held <=> (calls.open = calls.close + 1)
    /\ pc \in {"break", "done"} => (~held /\ calls.close = calls.open)

C5_Witness ==
    /\ pc = "done" /\ dir = "o"
    /\ calls.open = 1 /\ calls.close = 1
    /\ calls.get = 1 /\ heap = "null"

\* C6: during read_file the size of the allocation is szDone + szHole +
\* szTail, and szHole and szTail are never negative.
C6_BufferInvariant ==
    InReadFile =>
        /\ Len(buf) = szDone + szHole + szTail
        /\ szHole >= 0
        /\ szTail >= 0

C6_Witness ==
    /\ pc = "rf_read" /\ crlf
    /\ Len(chunks) = 2
    /\ szHole = szIncr
    /\ szDone > Len(consumed)

\* C7: contracting the expansion of x gives x when x holds no CR, for every
\* split of x into chunks.
C7_RoundTrip ==
    (pc = "rf_ret" /\ crlf /\ ~HasCR(consumed)) => contract(Finalized) = consumed

C7_Witness ==
    /\ pc = "rf_ret" /\ crlf
    /\ consumed = <<LF, 97, LF>>
    /\ chunks = <<1, 2, 0>>
    /\ Finalized = <<CR, LF, 97, CR, LF>>

\* C8: with a non-zero byte in the content, write_file writes the content
\* up to and including its last non-zero byte, with or without --lf.
C8_TrimToLastNonZero ==
    /\ (pc \in {"wf_write", "wf_ret"} /\ ~AllZero(cooked)) =>
            /\ sz = LastNonZero(cooked)
            /\ SubSeq(buf, 1, sz) = SubSeq(cooked, 1, sz)
    /\ (pc = "wf_ret" /\ ~AllZero(cooked)) =>
            out = << <<wf_h, SubSeq(cooked, 1, LastNonZero(cooked))>> >>

C8_Witness ==
    /\ pc = "wf_ret" /\ ~wf_lf
    /\ orig = <<97, 97, NUL, NUL, NUL>>
    /\ out = << <<STDOUT, <<97, 97>> >> >>

\* C9: with lf the contraction is the reference forward pass, and the
\* logical length drops by the number of pairs contracted.
C9_ContractIsForwardPass ==
    (AfterContract /\ wf_lf) =>
        /\ cooked = ContractRef(orig)
        /\ Len(cooked) = Len(orig) - CountCRLF(orig)

C9_Witness ==
    /\ pc = "wf_ret" /\ wf_lf
    /\ orig = <<97, CR, LF, 97>>
    /\ out = << <<STDOUT, <<97, LF, 97>> >> >>

\* C10: with expand_lf and no CR in the input, the finalized bytes are the
\* input with every LF replaced by CR LF, for every split into chunks.
C10_ExpandEveryLF ==
    (pc = "rf_ret" /\ crlf /\ ~HasCR(consumed)) =>
        /\ Finalized = ExpandEveryLF(consumed)
        /\ szDone = Len(consumed) + CountLF(consumed)

C10_Witness ==
    /\ pc = "rf_ret" /\ crlf
    /\ consumed = <<97, LF, 97, LF>>
    /\ chunks = <<2, 1, 1, 0>>
    /\ Finalized = <<97, CR, LF, 97, CR, LF>>

\* sum of the chunk sizes
RECURSIVE SumSeq(_)
SumSeq(s) == IF s = <<>> THEN 0 ELSE Head(s) + SumSeq(Tail(s))

\* C11: without expand_lf the finalized bytes are the bytes of the chunks
\* read, in order, their number the sum of the chunk sizes, and the first
\* ReadFile that returns 0 bytes is the last ReadFile.
C11_PlainIngestion ==
    /\ calls.read = Len(chunks)
    /\ calls.readAfterEof = 0
    /\ \A i \in 1..Len(chunks) : chunks[i] = 0 =>
            (i = Len(chunks) /\ pc \notin {"rf_loop", "rf_hole", "rf_read", "rf_expand"})
    /\ (pc = "rf_ret" /\ ~crlf) =>
            /\ Finalized = consumed
            /\ szDone = SumSeq(chunks)
            /\ chunks[Len(chunks)] = 0
    /\ (pc \in {"rf_loop", "rf_hole", "rf_read"} /\ ~crlf) =>
            (Finalized = consumed /\ pbOut = szDone)
    /\ (pc = "i_mb2wc" /\ ~crlf) => (sz = Len(consumed) /\ SubSeq(buf, 1, sz) = consumed)

C11_Witness ==
    /\ pc = "rf_ret" /\ ~crlf
    /\ chunks = <<2, 1, 0>>
    /\ consumed = <<LF, CR, LF>>
    /\ Finalized = <<LF, CR, LF>>

\* C12: when OpenClipboard fails nothing is written (-o), the clipboard is
\* neither emptied nor set (-i, -x), it is not closed, and the exit status
\* is 0; -o writes nothing either when the clipboard holds no text.
C12_ClipboardUnavailable ==
    /\ (dir # "none" /\ calls.open = 0) =>
            /\ calls.empty = 0 /\ calls.set = 0 /\ calls.get = 0 /\ calls.close = 0
            /\ ~held
            /\ dir = "o" => out = <<>>
            /\ hOwner \in {"none", "caller"}
    /\ (dir = "o" /\ heap = "null") => (out = <<>> /\ sz = 0)
    /\ pc = "done" => status = 0

C12_Witness ==
    /\ pc = "done" /\ dir = "o" /\ status = 0
    /\ calls.open = 0
    /\ clipHas /\ clipData = <<97, 97>>
    /\ orig = <<>> /\ out = <<>>

\* C13: hData is handed to the clipboard or freed by the caller, never
\* both; it is freed once, and only after SetClipboardData failed.
C13_PayloadOwnership ==
    /\ calls.gfree <= 1 /\ calls.set <= 1
    /\ hOwner = "clipboard" =>
            (calls.set = 1 /\ calls.gfree = 0 /\ clipHas /\ clipData = hData)
    /\ hOwner = "freed" => (calls.set = 1 /\ calls.gfree = 1)
    /\ (dir = "i" /\ calls.set = 1) =>
            /\ hOwner \in {"clipboard", "freed"}
            /\ clipHas <=> hOwner = "clipboard"
            /\ clipHas <=> calls.gfree = 0
    /\ calls.set = 0 => calls.gfree = 0

C13_Witness ==
    /\ pc = "done" /\ dir = "i"
    /\ calls.set = 1 /\ calls.gfree = 1
    /\ hOwner = "freed" /\ ~clipHas
    /\ Len(hData) = 3

\* lf is read on the -o path only (O_Write) and crlf on the -i path only
\* (read_file), so the runs that differ in the flag their direction ignores
\* are the same runs; FairInit takes one of each
FairInit ==
    /\ Init
    /\ dir # "o" => ~lf
    /\ dir # "i" => ~crlf

\* the program is single-threaded and every call it makes returns: a step
\* that is enabled is eventually taken
FairSpec == FairInit /\ [][Next]_vars /\ WF_vars(Next)

\* what a finished run has done: the calls of its own direction only, each
\* at most once (nothing is retried)
OneDirectionDone ==
    /\ status = 0
    /\ ~held
    /\ calls.open <= 1 /\ calls.close <= 1 /\ calls.empty <= 1
    /\ calls.set <= 1 /\ calls.get <= 1 /\ Len(out) <= 1
    /\ dir = "i" =>
            /\ calls.read >= 1 /\ chunks[Len(chunks)] = 0
            /\ calls.get = 0 /\ out = <<>>
            /\ calls.set = calls.open /\ calls.empty = calls.open
    /\ dir = "o" =>
            /\ calls.read = 0 /\ calls.empty = 0 /\ calls.set = 0
            /\ calls.get = calls.open
            /\ \A i \in 1..Len(out) : out[i][1] = STDOUT
    /\ dir = "x" =>
            /\ calls.read = 0 /\ calls.get = 0 /\ calls.set = 0 /\ out = <<>>
            /\ calls.empty = calls.open
    /\ dir = "none" =>
            /\ calls.read = 0 /\ calls.open = 0 /\ calls.get = 0
            /\ calls.empty = 0 /\ calls.set = 0
            /\ out = << <<STDERR, SubSeq(UsageText, 1, Len(UsageText) - 1)>> >>

\* C14: every run reaches Done with exit status 0, having executed exactly
\* one direction, whatever fails on the way, and no step is retried.
C14_AlwaysDoneStatus0 ==
    /\ <>(pc = "done")
    /\ [](pc = "done" => OneDirectionDone)
    /\ [][pc = "done" => pc' = "done"]_vars

C14_Witness ==
    /\ pc = "done" /\ status = 0 /\ dir = "i"
    /\ calls.open = 1 /\ calls.set = 1 /\ hOwner = "freed"
    /\ consumed = <<97, LF>>

\* C15: with expand_lf the finalized length lies between the number of
\* bytes read and twice that number, and the expansions made within a chunk
\* never outnumber the bytes of the chunk processed so far.
C15_GrowthBound ==
    /\ (InReadFile /\ crlf) =>
            /\ Len(consumed) <= szDone
            /\ szDone <= 2 * Len(consumed)
    /\ (pc = "rf_expand" /\ crlf) =>
            szIncr - szHole <= chunks[Len(chunks)] - cbRead
    /\ (pc = "rf_loop" /\ crlf /\ chunks # <<>>) =>
            szIncr - szHole <= chunks[Len(chunks)]
    /\ (pc = "i_mb2wc" /\ crlf) =>
            (Len(consumed) <= sz /\ sz <= 2 * Len(consumed))

C15_Witness ==
    /\ pc = "rf_ret" /\ crlf
    /\ consumed = <<LF, LF, LF, LF>>
    /\ chunks = <<2, 2, 0>>
    /\ szDone = 8

\* C16: when a chunk is requested the tail holds at least szIncr bytes, the
\* landing zone lies inside the allocation, and the hole is 0 without
\* expand_lf and szIncr with it; no chunk is longer than szIncr.
C16_ReservationAtRead ==
    /\ pc = "rf_read" =>
            /\ szTail >= szIncr
            /\ pbOut = szDone
            /\ pbOut + szHole + szIncr <= Len(buf)
            /\ szHole = (IF crlf THEN szIncr ELSE 0)
    /\ (pc \in {"rf_expand", "rf_loop", "rf_ret"} /\ chunks # <<>>) =>
            chunks[Len(chunks)] <= szIncr

C16_Witness ==
    /\ pc = "rf_read" /\ crlf
    /\ chunks = <<2, 1>>
    /\ szIncr = 8 * InitIncr
    /\ szHole = szIncr

\* the byte RF_Expand is about to process is an LF it will expand
WillExpand == c1 # CR /\ Peek(buf, pbIn) = LF

\* C17: before each byte of a chunk is processed the write cursor is szHole
\* bytes behind the read cursor, an expansion finds szHole >= 1, the bytes
\* of the chunk not yet read are intact and all of it is in the allocation.
C17_WriteBehindRead ==
    pc = "rf_expand" =>
        /\ pbOut + szHole = pbIn
        /\ szHole >= 0
        /\ WillExpand => szHole >= 1
        /\ cbRead >= 1
        /\ pbIn + cbRead <= Len(buf)
        /\ SubSeq(buf, pbIn + 1, pbIn + cbRead)
             = SubSeq(consumed, Len(consumed) - cbRead + 1, Len(consumed))

C17_Witness ==
    /\ pc = "rf_expand"
    /\ szHole = 1 /\ cbRead = 1
    /\ c1 = LF /\ WillExpand
    /\ chunks = <<2>>

\* szIncr is its initial value times a power of two
IncrIsDoubled == \E k \in 0..(MaxInput + 2) : szIncr = InitIncr * 2^k

\* C18: in read_file the buffer is reallocated only at the head of the
\* loop and only when szHole + szTail < szIncr2; a reallocation doubles
\* szIncr, enlarges the allocation and keeps szDone and the finalized bytes;
\* szIncr and the allocation never shrink, szIncr stays a doubled InitIncr.
C18_GrowthStep ==
    [][(InReadFile /\ InReadFile') =>
        /\ szIncr' >= szIncr
        /\ Len(buf') >= Len(buf)
        /\ IncrIsDoubled'
        /\ (Len(buf') # Len(buf) \/ szIncr' # szIncr) =>
                /\ pc = "rf_loop" /\ pc' = "rf_hole"
                /\ szHole + szTail < szIncr + (IF crlf THEN szIncr ELSE 0)
                /\ szIncr' = 2 * szIncr
                /\ Len(buf') > Len(buf)
                /\ szDone' = szDone
                /\ SubSeq(buf', 1, szDone) = SubSeq(buf, 1, szDone)
        /\ (pc = "rf_loop" /\ szHole + szTail < szIncr + (IF crlf THEN szIncr ELSE 0)) =>
                (szIncr' = 2 * szIncr /\ Len(buf') > Len(buf))
       ]_vars

\* two reallocations, then a loop head at which the space still suffices
C18_Witness ==
    /\ pc = "rf_hole" /\ ~crlf
    /\ chunks = <<1, 1>>
    /\ szIncr = 4 * InitIncr
    /\ Len(buf) = 6 * InitIncr
    /\ szTail = szIncr

\* C19: in the CRLF => LF pass the write cursor is at or behind the read
\* cursor, every byte read lies inside the sz bytes passed in and has not
\* been overwritten, the pass ends with the write cursor at the new length,
\* the trim scan stays inside the contracted bytes, and with sz == 0 no
\* byte is read or written.
C19_ContractInPlaceSafe ==
    /\ pc = "wf_loop" =>
            /\ wf_pbOut <= wf_pbIn
            /\ wf_szTail >= 0
            /\ wf_pbIn + wf_szTail = Len(orig)
            /\ wf_pbOut + wf_szTail = sz
            /\ SubSeq(buf, wf_pbIn + 1, Len(orig)) = SubSeq(orig, wf_pbIn + 1, Len(orig))
            /\ \A i \in 1..wf_szTail : Peek(buf, wf_pbIn + i - 1) # Undef
    /\ pc = "wf_trim" =>
            (wf_pbOut = sz /\ sz = Len(cooked) /\ sz <= Len(orig))
    /\ pc = "wf_scan" =>
            /\ wf_pbOut = sz
            /\ wf_pbOut >= 1 /\ wf_pbOut <= Len(cooked)
            /\ Peek(buf, wf_pbOut - 1) = cooked[wf_pbOut]
    /\ (pc \in {"wf_loop", "wf_trim", "wf_scan", "wf_write", "wf_ret"} /\ orig = <<>>) =>
            /\ pc # "wf_scan"
            /\ wf_szTail = 0
            /\ sz = 0 /\ out = <<>>
            /\ \A i \in 1..Len(buf) : buf[i] = Undef
            /\ heap = "null" => buf = <<>>

C19_Witness ==
    /\ pc = "wf_loop"
    /\ orig = <<CR, LF, 97, CR, LF>>
    /\ wf_pbIn = 3 /\ wf_pbOut = 2 /\ wf_szTail = 2

\* C20: a finished -i run has handed hData to the clipboard or freed it.
C20_PayloadAccounted ==
    (pc = "done" /\ dir = "i") => hOwner \in {"clipboard", "freed"}

====
